---- MODULE Spec2Model ----
(***************************************************************************)
(* Model of the tile solver in src/components/image_canvas_component.rs    *)
(* (ImageCanvasComponent) together with the shared "loaded_tiles" concept   *)
(* it reads on every update.                                                *)
(*                                                                          *)
(* Rust indices are 0-based; TLA+ sequences are 1-based, so the element     *)
(* tiles[i] of the source is tiles[i + 1] here (see TileAt).                *)
(* Option<T> is modelled as a sequence: << >> is None, <<v>> is Some(v).    *)
(* The f32 confidence of tile_confidence is kept as its number of quarters  *)
(* (0..4); the source adds 0.25 per overlapping direction, which is exact   *)
(* in binary floating point, so the order of scores is the same.            *)
(***************************************************************************)
EXTENDS Integers, Sequences, FiniteSets, TLC

VARIABLES loaded_tiles, current_tile_set, canvas_connections,
          canvas_representation, panicked, edits, run_algorithm, enabled,
          loaded_images, tile_being_modified, tile_selected,
          direction_selected

vars == <<loaded_tiles, current_tile_set, canvas_connections,
          canvas_representation, panicked, edits, run_algorithm, enabled,
          loaded_images, tile_being_modified, tile_selected,
          direction_selected>>

\* the editor fields of TileCreationComponent
editor == <<tile_being_modified, tile_selected, direction_selected>>

(***************************************************************************)
(* Bounds.  The source grid is 10 x 10 (rows/columns 0..9); the model grid  *)
(* is N x N with the same edge tests (index 0 and index N - 1).             *)
(***************************************************************************)
N == 3

\* how many times the authoring side replaces the tile list in one run
MaxEdits == 2

Last == N - 1

Pos == (0 .. Last) \X (0 .. Last)

None == << >>

Some(v) == <<v>>

(***************************************************************************)
(* Data model: Direction, TileConnection, TileData, PossibleConnections.    *)
(***************************************************************************)
North == "North"

South == "South"

East == "East"

West == "West"

Direction == {North, South, East, West}

Opposite(dir) ==
    CASE dir = North -> South
      [] dir = South -> North
      [] dir = East  -> West
      [] dir = West  -> East

TileData(i, n, s, e, w) ==
    [image_index |-> i, north_valid_tiles |-> n, south_valid_tiles |-> s,
     east_valid_tiles |-> e, west_valid_tiles |-> w]

TileDataNew(i) == TileData(i, << >>, << >>, << >>, << >>)

PossibleConnections(n, s, e, w) ==
    [north_connections |-> n, south_connections |-> s,
     east_connections |-> e, west_connections |-> w]

PossibleConnectionsDefault == PossibleConnections(<< >>, << >>, << >>, << >>)

total_len(self) ==
    Len(self.north_connections) + Len(self.south_connections)
        + Len(self.east_connections) + Len(self.west_connections)

\* tiles[i] of the source, for i < tiles.len()
TileAt(tiles, i) == tiles[i + 1]

InRange(tiles, i) == i < Len(tiles)

Contains(seq, elem) == \E k \in 1 .. Len(seq) : seq[k] = elem

(***************************************************************************)
(* fill_representation_array and its helpers.                               *)
(***************************************************************************)
RECURSIVE RemoveDupesFrom(_, _, _)
RemoveDupesFrom(arr, k, vec) ==
    IF k > Len(arr) THEN vec
    ELSE RemoveDupesFrom(arr, k + 1,
            IF Contains(vec, arr[k]) THEN vec ELSE Append(vec, arr[k]))

\* variant: repeated entries are kept
keep_dupes(arr) == arr

remove_dupes(arr) == RemoveDupesFrom(arr, 1, << >>)

ValidTiles(tile, dir) ==
    CASE dir = North -> tile.north_valid_tiles
      [] dir = South -> tile.south_valid_tiles
      [] dir = East  -> tile.east_valid_tiles
      [] dir = West  -> tile.west_valid_tiles

RECURSIVE FlatMapFrom(_, _, _)
FlatMapFrom(tiles, k, dir) ==
    IF k > Len(tiles) THEN << >>
    ELSE ValidTiles(tiles[k], dir) \o FlatMapFrom(tiles, k + 1, dir)

AllConnections(tiles, dir) == remove_dupes(FlatMapFrom(tiles, 1, dir))

\* variant: the lists are appended for all four directions in every cell
FreshSlotEverywhere(tiles, pos) ==
    PossibleConnections(AllConnections(tiles, North), AllConnections(tiles, South),
                        AllConnections(tiles, East), AllConnections(tiles, West))

FreshSlot(tiles, pos) ==
    PossibleConnections(
        IF pos[1] # 0 THEN AllConnections(tiles, North) ELSE << >>,
        IF pos[1] # Last THEN AllConnections(tiles, South) ELSE << >>,
        IF pos[2] # Last THEN AllConnections(tiles, East) ELSE << >>,
        IF pos[2] # 0 THEN AllConnections(tiles, West) ELSE << >>)

fill_representation_array(tiles) == [pos \in Pos |-> FreshSlot(tiles, pos)]

\* variant: the rebuild also empties the resolution grid
RepresentationCleared(rep) == [pos \in Pos |-> None]

\* fill_representation_array assigns canvas_connections only; the resolution
\* grid it is handed is the one it leaves behind.
RepresentationAfterFill(rep) == rep

(***************************************************************************)
(* get_lowest_entropy: (x, y) is the random seed cell.                      *)
(***************************************************************************)
CellOf(k) == <<k \div N, k % N>>

\* total_len() of every cell of the constraint grid
Entropies(conns) == [cell \in Pos |-> total_len(conns[cell])]

\* variant: the scan does not test that the cell is unresolved
ReplacesResolvedToo(lens, rep, cell, lowest) == lens[cell] < lens[lowest]

\* variant: the scan also replaces the baseline on equal entropy
ReplacesOnTie(lens, rep, cell, lowest) ==
    /\ lens[cell] <= lens[lowest]
    /\ rep[cell] = None

Replaces(lens, rep, cell, lowest) ==
    /\ lens[cell] < lens[lowest]
    /\ rep[cell] = None

RECURSIVE ScanFrom(_, _, _, _)
ScanFrom(lens, rep, k, lowest) ==
    IF k >= N * N THEN lowest
    ELSE ScanFrom(lens, rep, k + 1,
            IF Replaces(lens, rep, CellOf(k), lowest) THEN CellOf(k) ELSE lowest)

\* variant: no test of the seed cell after the scan
LowestFromUnchecked(lens, rep, x, y) == Some(ScanFrom(lens, rep, 0, <<x, y>>))

\* variant: no cell is reported whenever the scan ends on the seed
LowestFromNeverSeed(lens, rep, x, y) ==
    LET lowest_position == ScanFrom(lens, rep, 0, <<x, y>>)
    IN  IF lowest_position = <<x, y>> THEN None ELSE Some(lowest_position)

\* get_lowest_entropy for the seed (x, y), given the cells' total_len()
LowestFrom(lens, rep, x, y) ==
    LET lowest_position == ScanFrom(lens, rep, 0, <<x, y>>)
    IN  IF lowest_position = <<x, y>> /\ rep[<<x, y>>] # None
        THEN None
        ELSE Some(lowest_position)

get_lowest_entropy(conns, rep, x, y) == LowestFrom(Entropies(conns), rep, x, y)

(***************************************************************************)
(* tile_confidence, counted in quarters: the source's f32 is 0.25 times it. *)
(***************************************************************************)
do_tile_arrs_overlap(vec1, vec2) ==
    \E k \in 1 .. Len(vec1) : Contains(vec2, vec1[k])

Quarter(b) == IF b THEN 1 ELSE 0

tile_confidence(tile, connections) ==
    Quarter(do_tile_arrs_overlap(tile.north_valid_tiles, connections.north_connections))
  + Quarter(do_tile_arrs_overlap(tile.south_valid_tiles, connections.south_connections))
  + Quarter(do_tile_arrs_overlap(tile.east_valid_tiles, connections.east_connections))
  + Quarter(do_tile_arrs_overlap(tile.west_valid_tiles, connections.west_connections))

(***************************************************************************)
(* get_possible_tiles: the tile-set indices gathered from the resolved      *)
(* neighbours, in the order the source pushes them.                         *)
(***************************************************************************)
RECURSIVE IndicesFrom(_, _)
IndicesFrom(list, k) ==
    IF k > Len(list) THEN << >>
    ELSE <<list[k][1]>> \o IndicesFrom(list, k + 1)

\* the adjacency list a resolved cell at `at` contributes, or nothing
Gathered(rep, at, dir) ==
    IF rep[at] = None THEN << >>
    ELSE IndicesFrom(ValidTiles(rep[at][1], dir), 1)

\* variant: each neighbour contributes its list for the direction it lies in,
\* not for the direction pointing back at the cell
PossibleIndicesSameSide(rep, pos) ==
    (IF pos[1] > 0 THEN Gathered(rep, <<pos[1] - 1, pos[2]>>, North) ELSE << >>)
 \o (IF pos[1] < Last THEN Gathered(rep, <<pos[1] + 1, pos[2]>>, South) ELSE << >>)
 \o (IF pos[2] > 0 THEN Gathered(rep, <<pos[1], pos[2] - 1>>, West) ELSE << >>)
 \o (IF pos[2] < Last THEN Gathered(rep, <<pos[1], pos[2] + 1>>, East) ELSE << >>)

PossibleIndices(rep, pos) ==
    (IF pos[1] > 0 THEN Gathered(rep, <<pos[1] - 1, pos[2]>>, South) ELSE << >>)
 \o (IF pos[1] < Last THEN Gathered(rep, <<pos[1] + 1, pos[2]>>, North) ELSE << >>)
 \o (IF pos[2] > 0 THEN Gathered(rep, <<pos[1], pos[2] - 1>>, East) ELSE << >>)
 \o (IF pos[2] < Last THEN Gathered(rep, <<pos[1], pos[2] + 1>>, West) ELSE << >>)

\* self.current_tile_set[*index] panics on an index that is out of range
GatherPanics(rep, tiles, pos) ==
    \E k \in 1 .. Len(PossibleIndices(rep, pos)) :
        ~InRange(tiles, PossibleIndices(rep, pos)[k])

get_possible_tiles(rep, tiles, pos) ==
    [k \in 1 .. Len(PossibleIndices(rep, pos)) |->
        TileAt(tiles, PossibleIndices(rep, pos)[k])]

(***************************************************************************)
(* PossibleConnections::random_tile.  The two random draws pick a bucket    *)
(* (re-rolled while empty) and an entry of it, so every entry of every      *)
(* non-empty bucket is a possible draw.  The result is Some(tile), or None  *)
(* where tiles[arr[index].0] panics.                                        *)
(***************************************************************************)
Entries(list) == {list[k] : k \in 1 .. Len(list)}

Drawable(self) ==
    Entries(self.north_connections) \cup Entries(self.south_connections)
        \cup Entries(self.east_connections) \cup Entries(self.west_connections)

Indexed(tiles, i) == IF InRange(tiles, i) THEN Some(TileAt(tiles, i)) ELSE None

\* variant: the fallback to tiles[0] is taken for every candidate set
random_tile_first(self, tiles) == {Indexed(tiles, 0)}

random_tile(self, tiles) ==
    IF self = PossibleConnectionsDefault
    THEN {Indexed(tiles, 0)}
    ELSE {Indexed(tiles, entry[1]) : entry \in Drawable(self)}

(***************************************************************************)
(* collapse_tile: the choice of the tile, then the one-hop propagation.     *)
(***************************************************************************)
\* variant: a later candidate of equal confidence replaces the earlier one
BetterOrEqual(confidence, highest_confidence) == confidence >= highest_confidence

Better(confidence, highest_confidence) == confidence > highest_confidence

RECURSIVE MostConfidentFrom(_, _, _, _)
MostConfidentFrom(possible_tiles, connections, k, best) ==
    IF k > Len(possible_tiles) THEN best
    ELSE MostConfidentFrom(possible_tiles, connections, k + 1,
            IF Better(tile_confidence(possible_tiles[k], connections),
                      tile_confidence(best, connections))
            THEN possible_tiles[k] ELSE best)

most_confident_tile(possible_tiles, connections) ==
    MostConfidentFrom(possible_tiles, connections, 1, possible_tiles[1])

\* variant: the tile is always drawn from the cell's own candidate set
most_likely_tile_drawn(rep, tiles, tile_connections, pos) ==
    random_tile(tile_connections, tiles)

\* the set of outcomes of the tile choice: Some(tile), or None for a panic
most_likely_tile(rep, tiles, tile_connections, pos) ==
    IF GatherPanics(rep, tiles, pos) THEN {None}
    ELSE IF get_possible_tiles(rep, tiles, pos) = << >>
         THEN random_tile(tile_connections, tiles)
         ELSE {Some(most_confident_tile(get_possible_tiles(rep, tiles, pos),
                                        tile_connections))}

Facet(self, dir) ==
    CASE dir = North -> self.north_connections
      [] dir = South -> self.south_connections
      [] dir = East  -> self.east_connections
      [] dir = West  -> self.west_connections

\* variant: an empty facet stays empty
NarrowedIfPresent(facet, index, dir) ==
    IF facet = << >> THEN << >> ELSE <<<<index, dir>>>>

\* variant: the entry is added to the facet instead of replacing it
NarrowedByAppend(facet, index, dir) == Append(facet, <<index, dir>>)

\* variant: the entry carries the direction from the neighbour to the cell
NarrowedFacingBack(facet, index, dir) == <<<<index, Opposite(dir)>>>>

\* variant: the entry always names the first tile of the list
NarrowedToFirstTile(facet, index, dir) == <<<<0, dir>>>>

\* the facet a neighbour is assigned: vec![(image_index, dir)]
Narrowed(facet, index, dir) == <<<<index, dir>>>>

\* variant: a narrowed neighbour keeps no entry in its other three facets
PropagateWholeNeighbour(conns, pos, index) ==
    [cell \in Pos |->
        IF pos[1] > 0 /\ cell = <<pos[1] - 1, pos[2]>>
        THEN PossibleConnections(<< >>, <<<<index, North>>>>, << >>, << >>)
        ELSE IF pos[1] < Last /\ cell = <<pos[1] + 1, pos[2]>>
        THEN PossibleConnections(<<<<index, South>>>>, << >>, << >>, << >>)
        ELSE IF pos[2] > 0 /\ cell = <<pos[1], pos[2] - 1>>
        THEN PossibleConnections(<< >>, << >>, <<<<index, West>>>>, << >>)
        ELSE IF pos[2] < Last /\ cell = <<pos[1], pos[2] + 1>>
        THEN PossibleConnections(<< >>, << >>, << >>, <<<<index, East>>>>)
        ELSE conns[cell]]

\* variant: only the neighbours above and below the cell are narrowed
PropagateVertically(conns, pos, index) ==
    [cell \in Pos |->
        IF pos[1] > 0 /\ cell = <<pos[1] - 1, pos[2]>>
        THEN [conns[cell] EXCEPT !.south_connections =
                    Narrowed(conns[cell].south_connections, index, North)]
        ELSE IF pos[1] < Last /\ cell = <<pos[1] + 1, pos[2]>>
        THEN [conns[cell] EXCEPT !.north_connections =
                    Narrowed(conns[cell].north_connections, index, South)]
        ELSE conns[cell]]

Propagate(conns, pos, index) ==
    [cell \in Pos |->
        IF pos[1] > 0 /\ cell = <<pos[1] - 1, pos[2]>>
        THEN [conns[cell] EXCEPT !.south_connections =
                    Narrowed(conns[cell].south_connections, index, North)]
        ELSE IF pos[1] < Last /\ cell = <<pos[1] + 1, pos[2]>>
        THEN [conns[cell] EXCEPT !.north_connections =
                    Narrowed(conns[cell].north_connections, index, South)]
        ELSE IF pos[2] > 0 /\ cell = <<pos[1], pos[2] - 1>>
        THEN [conns[cell] EXCEPT !.east_connections =
                    Narrowed(conns[cell].east_connections, index, West)]
        ELSE IF pos[2] < Last /\ cell = <<pos[1], pos[2] + 1>>
        THEN [conns[cell] EXCEPT !.west_connections =
                    Narrowed(conns[cell].west_connections, index, East)]
        ELSE conns[cell]]

Commit(rep, pos, tile) == [rep EXCEPT ![pos] = Some(tile)]

(***************************************************************************)
(* The tile sets the authoring side supplies.                               *)
(***************************************************************************)
NoTiles == << >>

ScenarioA == <<TileDataNew(0)>>

ScenarioB ==
    <<TileData(0, << >>, <<<<1, South>>>>, << >>, << >>),
      TileData(1, <<<<0, North>>>>, << >>, << >>, << >>)>>

\* two tiles that list each other (and, north/south, themselves) on every side,
\* with the side of the listed tile that touches: the convention of the
\* entries collapse_tile writes
Rich ==
    <<TileData(0, <<<<0, South>>, <<1, South>>>>, <<<<1, North>>>>,
                  <<<<1, West>>>>, <<<<1, East>>>>),
      TileData(1, <<<<0, South>>>>, <<<<0, North>>, <<1, North>>>>,
                  <<<<0, West>>>>, <<<<0, East>>>>)>>

TileSets == {NoTiles, ScenarioA, ScenarioB, Rich}

\* the lists the "Add" button can give one direction tab of a tile
OneTileLists(dir) == {<< >>, <<<<0, dir>>>>}

\* the tile id is a free input, so an entry may name a tile the list does not
\* hold
NorthLists == OneTileLists(North) \cup {<<<<0, North>>, <<1, North>>>>}

\* the tile lists of one loaded image whose four tabs hold such lists
OneTileSets ==
    {<<TileData(0, n, s, e, w)>> :
        n \in NorthLists, s \in OneTileLists(South),
        e \in OneTileLists(East), w \in OneTileLists(West)}

BuildSets == {NoTiles, Rich} \cup OneTileSets

\* one tile that lists itself to the north and to the south only
VerticalOnly ==
    <<TileData(0, <<<<0, North>>>>, <<<<0, South>>>>, << >>, << >>)>>

\* the same tile after "Remove connection" on its one south entry
NorthOnly == <<TileData(0, <<<<0, North>>>>, << >>, << >>, << >>)>>

\* two tile lists that differ in a single adjacency entry
EditSets == {VerticalOnly, NorthOnly}

(***************************************************************************)
(* State machine.                                                           *)
(***************************************************************************)
\* the file an image is loaded from; ImageData is modelled by its path
DefaultPath == "a"

\* the image list that goes with a tile list: ui_draw pushes to and removes
\* from "loaded_images" and "loaded_tiles" together
ImagesFor(tiles) == [k \in 1 .. Len(tiles) |-> DefaultPath]

\* TileCreationComponent::new
EditorAsConstructed ==
    /\ tile_being_modified = None
    /\ tile_selected = 0
    /\ direction_selected = 0

Init ==
    /\ loaded_tiles = NoTiles
    /\ current_tile_set = NoTiles
    /\ canvas_connections = [pos \in Pos |-> PossibleConnectionsDefault]
    /\ canvas_representation = [pos \in Pos |-> None]
    /\ panicked = FALSE
    /\ edits = 0
    /\ run_algorithm = FALSE
    /\ enabled = FALSE
    /\ loaded_images = ImagesFor(loaded_tiles)
    /\ EditorAsConstructed

\* TileCreationComponent::ui_draw stores the edited tile list in the
\* "loaded_tiles" concept
SetTiles(tiles) ==
    /\ ~panicked
    /\ edits < MaxEdits
    /\ tiles # loaded_tiles
    /\ loaded_tiles' = tiles
    /\ edits' = edits + 1
    /\ loaded_images' = ImagesFor(tiles)
    /\ UNCHANGED <<current_tile_set, canvas_connections, canvas_representation,
                   panicked, run_algorithm, enabled, editor>>

\* variant: the constraint grid is rebuilt on every update
ConnectionsRebuiltAlways(tiles) == fill_representation_array(tiles)

ConnectionsAfterSync(tiles) ==
    IF tiles # current_tile_set
    THEN fill_representation_array(tiles)
    ELSE canvas_connections

RepresentationAfterSync(tiles) ==
    IF tiles # current_tile_set
    THEN RepresentationAfterFill(canvas_representation)
    ELSE canvas_representation

\* the end of update() when nothing is committed
NoCommit(conns, rep) ==
    /\ canvas_connections' = conns
    /\ canvas_representation' = rep
    /\ panicked' = FALSE

\* the end of update() for the cell pos and the outcome of the tile choice
Collapse(conns, rep, pos, choice) ==
    IF choice = None
    THEN /\ canvas_connections' = conns
         /\ canvas_representation' = rep
         /\ panicked' = TRUE
    ELSE /\ canvas_connections' = Propagate(conns, pos, choice[1].image_index)
         /\ canvas_representation' = Commit(rep, pos, choice[1])
         /\ panicked' = FALSE

\* variant: the seed is drawn among the unresolved cells only
SelectionsFromUnresolved(conns, rep) ==
    LET lens == Entropies(conns)
    IN  {LowestFrom(lens, rep, p[1], p[2]) : p \in {q \in Pos : rep[q] = None}}

\* what get_lowest_entropy can return in this state, over all seeds (x, y)
Selections(conns, rep) ==
    LET lens == Entropies(conns)
    IN  {LowestFrom(lens, rep, x, y) : x \in 0 .. Last, y \in 0 .. Last}

\* variant: the step is taken without the test for an empty tile list
StepFromUnguarded(conns, rep, tiles) ==
    \E lowest_entropy_pos \in Selections(conns, rep) :
        IF lowest_entropy_pos = None
        THEN NoCommit(conns, rep)
        ELSE \E choice \in most_likely_tile(rep, tiles,
                    conns[lowest_entropy_pos[1]], lowest_entropy_pos[1]) :
                Collapse(conns, rep, lowest_entropy_pos[1], choice)

\* the step of update() after the tile-set synchronisation
StepFrom(conns, rep, tiles) ==
    IF tiles = << >>
    THEN NoCommit(conns, rep)
    ELSE \E lowest_entropy_pos \in Selections(conns, rep) :
            IF lowest_entropy_pos = None
            THEN NoCommit(conns, rep)
            ELSE \E choice \in most_likely_tile(rep, tiles,
                        conns[lowest_entropy_pos[1]], lowest_entropy_pos[1]) :
                    Collapse(conns, rep, lowest_entropy_pos[1], choice)

\* what ImageCanvasComponent::update does to the solver's own fields
Step ==
    /\ ~panicked
    /\ current_tile_set' = loaded_tiles
    /\ StepFrom(ConnectionsAfterSync(loaded_tiles),
                RepresentationAfterSync(loaded_tiles), loaded_tiles)

\* ImageCanvasComponent::update, called whenever the caller chooses
Update ==
    /\ Step
    /\ UNCHANGED <<loaded_tiles, edits, run_algorithm, enabled, loaded_images,
                   editor>>

Next ==
    \/ Update
    \/ \E tiles \in TileSets : SetTiles(tiles)

Spec == Init /\ [][Next]_vars

InitA ==
    /\ loaded_tiles = ScenarioA
    /\ current_tile_set = NoTiles
    /\ canvas_connections = [pos \in Pos |-> PossibleConnectionsDefault]
    /\ canvas_representation = [pos \in Pos |-> None]
    /\ panicked = FALSE
    /\ edits = 0
    /\ run_algorithm = FALSE
    /\ enabled = FALSE
    /\ loaded_images = ImagesFor(loaded_tiles)
    /\ EditorAsConstructed

InitB ==
    /\ loaded_tiles = ScenarioB
    /\ current_tile_set = NoTiles
    /\ canvas_connections = [pos \in Pos |-> PossibleConnectionsDefault]
    /\ canvas_representation = [pos \in Pos |-> None]
    /\ panicked = FALSE
    /\ edits = 0
    /\ run_algorithm = FALSE
    /\ enabled = FALSE
    /\ loaded_images = ImagesFor(loaded_tiles)
    /\ EditorAsConstructed

InitR ==
    /\ loaded_tiles = Rich
    /\ current_tile_set = NoTiles
    /\ canvas_connections = [pos \in Pos |-> PossibleConnectionsDefault]
    /\ canvas_representation = [pos \in Pos |-> None]
    /\ panicked = FALSE
    /\ edits = 0
    /\ run_algorithm = FALSE
    /\ enabled = FALSE
    /\ loaded_images = ImagesFor(loaded_tiles)
    /\ EditorAsConstructed

SpecR == InitR /\ [][Update]_vars

SpecA == InitA /\ [][Update]_vars

SpecB == InitB /\ [][Update]_vars

\* the solver started on any of the tile lists above, which is then left alone
InitT ==
    /\ loaded_tiles \in BuildSets
    /\ current_tile_set = NoTiles
    /\ canvas_connections = [pos \in Pos |-> PossibleConnectionsDefault]
    /\ canvas_representation = [pos \in Pos |-> None]
    /\ panicked = FALSE
    /\ edits = 0
    /\ run_algorithm = FALSE
    /\ enabled = FALSE
    /\ loaded_images = ImagesFor(loaded_tiles)
    /\ EditorAsConstructed

SpecT == InitT /\ [][Update]_vars

\* an update() called now can change the state: it synchronises a changed
\* tile list, or some seed makes it select a cell (which it then commits,
\* or panics on)
UpdateCanAct ==
    /\ ~panicked
    /\ \/ current_tile_set # loaded_tiles
       \/ /\ loaded_tiles # << >>
          /\ Selections(ConnectionsAfterSync(loaded_tiles),
                        RepresentationAfterSync(loaded_tiles)) # {None}

\* the same, with the seeds drawn fairly: the engine calls update() on every
\* frame and get_lowest_entropy draws the seed anew on every call, so an
\* update() that can change the state is not put off forever.  This is weak
\* fairness of Update, WF_vars(Update), with the enabling condition of a
\* state-changing update() written out as UpdateCanAct.
SpecTF ==
    /\ InitT
    /\ [][Update]_vars
    /\ ([]<>(~UpdateCanAct) \/ []<><<Update>>_vars)

\* the solver started on VerticalOnly while the south entry is removed and
\* added again
InitE ==
    /\ loaded_tiles = VerticalOnly
    /\ current_tile_set = NoTiles
    /\ canvas_connections = [pos \in Pos |-> PossibleConnectionsDefault]
    /\ canvas_representation = [pos \in Pos |-> None]
    /\ panicked = FALSE
    /\ edits = 0
    /\ run_algorithm = FALSE
    /\ enabled = FALSE
    /\ loaded_images = ImagesFor(loaded_tiles)
    /\ EditorAsConstructed

NextE ==
    \/ Update
    \/ \E tiles \in EditSets : SetTiles(tiles)

SpecE == InitE /\ [][NextE]_vars

(***************************************************************************)
(* The gate of the solver.  The specifications above call update() directly *)
(* and leave the flag and the entity as constructed.  SpecG is the program  *)
(* of main(): TileCreationComponent::update sets the enabled field of the   *)
(* solver entity on every frame, and the engine (not part of the source     *)
(* tree) calls the update() of entity 0 and then that of entity 1, the      *)
(* latter only while the entity is enabled; ui_draw runs between frames.    *)
(***************************************************************************)
\* variant: the entity is enabled whenever tiles are loaded
EnabledWhenLoaded(tiles, run) == tiles # << >>

\* !loaded_tiles.is_empty() && self.run_algorithm
EnabledAfter(tiles, run) == tiles # << >> /\ run

\* the "Run algorithm" checkbox of ui_draw
ToggleRun ==
    /\ ~panicked
    /\ run_algorithm' = ~run_algorithm
    /\ UNCHANGED <<loaded_tiles, current_tile_set, canvas_connections,
                   canvas_representation, panicked, edits, enabled,
                   loaded_images, editor>>

\* one frame of the engine's loop
Frame ==
    /\ ~panicked
    /\ enabled' = EnabledAfter(loaded_tiles, run_algorithm)
    /\ UNCHANGED <<loaded_tiles, edits, run_algorithm, loaded_images, editor>>
    /\ IF enabled'
       THEN Step
       ELSE UNCHANGED <<current_tile_set, canvas_connections,
                        canvas_representation, panicked>>

\* the tile lists of the gated program: none, or one image just loaded
GateSets == {NoTiles, ScenarioA}

NextG ==
    \/ Frame
    \/ ToggleRun
    \/ \E tiles \in GateSets : SetTiles(tiles)

SpecG == Init /\ [][NextG]_vars

(***************************************************************************)
(* The authoring UI: TileCreationComponent::ui_draw.  One action is one     *)
(* call of ui_draw in which the user operates one widget (imgui reports at  *)
(* most one click per frame): the image table, the "Load image" button,     *)
(* then the "Modifying tile" window, which reads images[tile_index] and     *)
(* tiles[tile_index], and last the write-back of both lists to their        *)
(* concepts.  The images loaded are square.                                 *)
(***************************************************************************)
\* how many images are loaded at the same time, at most
MaxImages == 2

\* how many entries the adjacency lists of all tiles hold together, at most
MaxConnections == 2

\* the files the dialog can pick
Paths == {"a", "b"}

\* what FileDialog::pick_files returns: one file, or two files
Picks == {<<path>> : path \in Paths} \cup {<<"a", "b">>}

\* the values typed into the "Tile id" input: a usize of the user's choice
TileIds == 0 .. 1

\* the values of the "Side" combo the runs select
SideIndices == 0 .. 1

\* impl From<usize> for Direction
DirectionFrom(value) ==
    CASE value = 0 -> North
      [] value = 1 -> South
      [] value = 2 -> East
      [] value = 3 -> West
      [] OTHER -> North

\* Vec::remove(i), i in range
RemoveAt(vec, i) == SubSeq(vec, 1, i) \o SubSeq(vec, i + 2, Len(vec))

\* the tiles pushed for the picked files: TileData::new(images.len() - 1)
\* after each images.push
TilesPushed(images, paths) ==
    [k \in 1 .. Len(paths) |-> TileDataNew(Len(images) + k - 1)]

\* TileData::total_connections
total_connections(tile) ==
    Len(tile.north_valid_tiles) + Len(tile.south_valid_tiles)
        + Len(tile.east_valid_tiles) + Len(tile.west_valid_tiles)

\* the number of entries in the adjacency lists of a tile list
RECURSIVE ConnectionCountUpTo(_, _)
ConnectionCountUpTo(tiles, k) ==
    IF k = 0 THEN 0
    ELSE total_connections(tiles[k]) + ConnectionCountUpTo(tiles, k - 1)

ConnectionCount(tiles) == ConnectionCountUpTo(tiles, Len(tiles))

\* tiles with the list of tile i for direction dir replaced by list
WithValidTiles(tiles, i, dir, list) ==
    [tiles EXCEPT ![i + 1] =
        CASE dir = North -> [@ EXCEPT !.north_valid_tiles = list]
          [] dir = South -> [@ EXCEPT !.south_valid_tiles = list]
          [] dir = East  -> [@ EXCEPT !.east_valid_tiles = list]
          [] dir = West  -> [@ EXCEPT !.west_valid_tiles = list]]

\* variant: "Add" pushes the entry whether or not the list holds it
AddedAlways(list, tile_being_added) == Append(list, tile_being_added)

\* if ui_frame.button("Add") && !tab_data.1.contains(&tile_being_added)
\*     { tab_data.1.push(tile_being_added) }
Added(list, tile_being_added) ==
    IF Contains(list, tile_being_added)
    THEN list
    ELSE Append(list, tile_being_added)

\* images[tile_index] of the "Modifying tile" window does not panic
EditorInRange(images, selection) ==
    selection = None \/ selection[1] < Len(images)

\* the end of ui_draw, from the "Modifying tile" window on: with images and
\* tiles the local copies and selection the field as the image table left
\* them.  A panic at images[tile_index] leaves the concepts as they were.
EditorAndWriteBack(images, tiles, selection) ==
    IF EditorInRange(images, selection)
    THEN /\ loaded_images' = images
         /\ loaded_tiles' = tiles
         /\ tile_being_modified' = selection
         /\ panicked' = FALSE
    ELSE /\ UNCHANGED <<loaded_images, loaded_tiles>>
         /\ tile_being_modified' = selection
         /\ panicked' = TRUE

\* the fields ui_draw of the authoring UI never writes
solver == <<current_tile_set, canvas_connections, canvas_representation,
            run_algorithm, enabled>>

\* the "Load image" button, the dialog returning paths
LoadImage(paths) ==
    /\ ~panicked
    /\ edits < MaxEdits
    /\ Len(loaded_images) + Len(paths) <= MaxImages
    /\ edits' = edits + 1
    /\ EditorAndWriteBack(loaded_images \o paths,
                          loaded_tiles \o TilesPushed(loaded_images, paths),
                          tile_being_modified)
    /\ UNCHANGED <<solver, tile_selected, direction_selected>>

\* the button "Remove image i"
RemoveImage(i) ==
    /\ ~panicked
    /\ edits < MaxEdits
    /\ i < Len(loaded_images)
    /\ edits' = edits + 1
    /\ EditorAndWriteBack(RemoveAt(loaded_images, i), RemoveAt(loaded_tiles, i),
                          tile_being_modified)
    /\ UNCHANGED <<solver, tile_selected, direction_selected>>

\* the image button i: self.tile_being_modified = Some(i)
SelectTile(i) ==
    /\ ~panicked
    /\ i < Len(loaded_images)
    /\ EditorAndWriteBack(loaded_images, loaded_tiles, Some(i))
    /\ UNCHANGED <<solver, edits, tile_selected, direction_selected>>

\* the "Close" button of the "Modifying tile" window
CloseEditor ==
    /\ ~panicked
    /\ tile_being_modified # None
    /\ EditorInRange(loaded_images, tile_being_modified)
    /\ tile_being_modified' = None
    /\ UNCHANGED <<solver, edits, loaded_images, loaded_tiles, panicked, tile_selected,
                   direction_selected>>

\* the "Tile id" input of the open direction tab
SetTileSelected(id) ==
    /\ ~panicked
    /\ tile_being_modified # None
    /\ EditorInRange(loaded_images, tile_being_modified)
    /\ id # tile_selected
    /\ tile_selected' = id
    /\ UNCHANGED <<solver, edits, loaded_images, loaded_tiles, panicked,
                   tile_being_modified, direction_selected>>

\* the "Side" combo of the open direction tab
SetDirectionSelected(side) ==
    /\ ~panicked
    /\ tile_being_modified # None
    /\ EditorInRange(loaded_images, tile_being_modified)
    /\ side # direction_selected
    /\ direction_selected' = side
    /\ UNCHANGED <<solver, edits, loaded_images, loaded_tiles, panicked,
                   tile_being_modified, tile_selected>>

\* the "Add" button of the tab of direction dir
AddConnection(dir) ==
    /\ ~panicked
    /\ tile_being_modified # None
    /\ EditorInRange(loaded_images, tile_being_modified)
    /\ loaded_tiles' =
         WithValidTiles(loaded_tiles, tile_being_modified[1], dir,
             Added(ValidTiles(loaded_tiles[tile_being_modified[1] + 1], dir),
                   <<tile_selected, DirectionFrom(direction_selected)>>))
    /\ ConnectionCount(loaded_tiles') <= MaxConnections
    /\ UNCHANGED <<solver, edits, loaded_images, panicked, editor>>

\* the "Remove" button of entry i in the tab of direction dir
RemoveConnection(dir, i) ==
    /\ ~panicked
    /\ tile_being_modified # None
    /\ EditorInRange(loaded_images, tile_being_modified)
    /\ i < Len(ValidTiles(loaded_tiles[tile_being_modified[1] + 1], dir))
    /\ loaded_tiles' =
         WithValidTiles(loaded_tiles, tile_being_modified[1], dir,
             RemoveAt(ValidTiles(loaded_tiles[tile_being_modified[1] + 1], dir),
                      i))
    /\ UNCHANGED <<solver, edits, loaded_images, panicked, editor>>

NextU ==
    \/ \E paths \in Picks : LoadImage(paths)
    \/ \E i \in 0 .. MaxImages - 1 : RemoveImage(i)
    \/ \E i \in 0 .. MaxImages - 1 : SelectTile(i)
    \/ CloseEditor
    \/ \E id \in TileIds : SetTileSelected(id)
    \/ \E side \in SideIndices : SetDirectionSelected(side)
    \/ \E dir \in Direction : AddConnection(dir)
    \/ \E dir \in Direction : \E i \in 0 .. MaxConnections - 1 :
            RemoveConnection(dir, i)

\* the authoring UI alone: the solver entity is never enabled
SpecU == Init /\ [][NextU]_vars

(***************************************************************************)
(* Drawing the canvas: ImageCanvasComponent::ui_draw.                       *)
(***************************************************************************)
\* the image index looked up for a cell: tile.image_index, or 0 for None
DrawnIndex(cell) == IF cell = None THEN 0 ELSE cell[1].image_index

\* images[image_index] does not panic for any cell
DrawInRange(images, rep) == \A p \in Pos : DrawnIndex(rep[p]) < Len(images)

\* ImageCanvasComponent::ui_draw: the table of images[image_index].id, drawn
\* when the image list is not empty
DrawCanvas ==
    /\ ~panicked
    /\ panicked' = (/\ loaded_images # << >>
                    /\ ~DrawInRange(loaded_images, canvas_representation))
    /\ UNCHANGED <<loaded_tiles, current_tile_set, canvas_connections,
                   canvas_representation, edits, run_algorithm, enabled,
                   loaded_images, editor>>

\* the dialog returning one file, or two
PlainPicks == {<<DefaultPath>>, <<DefaultPath, DefaultPath>>}

\* the solver, the canvas and the loading and removing of images, with the
\* editor window closed
NextV ==
    \/ Update
    \/ DrawCanvas
    \/ \E paths \in PlainPicks : LoadImage(paths)
    \/ \E i \in 0 .. MaxImages - 1 : RemoveImage(i)

SpecV == Init /\ [][NextV]_vars

(***************************************************************************)
(* Vocabulary of the properties.                                            *)
(***************************************************************************)
Resolved == {p \in Pos : canvas_representation[p] # None}

Unresolved == Pos \ Resolved

AllResolved == Resolved = Pos

ResolvedAfter == {p \in Pos : canvas_representation'[p] # None}

\* the cells a step commits
Committed == {p \in Pos : canvas_representation[p] = None
                          /\ canvas_representation'[p] # None}

Neighbour(p, dir) ==
    CASE dir = North -> <<p[1] - 1, p[2]>>
      [] dir = South -> <<p[1] + 1, p[2]>>
      [] dir = East  -> <<p[1], p[2] + 1>>
      [] dir = West  -> <<p[1], p[2] - 1>>

HasNeighbour(p, dir) == Neighbour(p, dir) \in Pos

TileOf(p) == canvas_representation[p][1]

Listed(tile, dir) == {entry[1] : entry \in Entries(ValidTiles(tile, dir))}

Entropy(p) == total_len(canvas_connections[p])

(***************************************************************************)
(* C1 as stated: in every reachable state, for a resolved cell and its      *)
(* resolved neighbour in direction d, the neighbour's tile index is in the  *)
(* cell's tile's adjacency list for d.                                      *)
(***************************************************************************)
C1_AdjacentPairsObeyRules ==
    \A p \in Resolved : \A d \in Direction :
        (HasNeighbour(p, d) /\ Neighbour(p, d) \in Resolved)
            => TileOf(Neighbour(p, d)).image_index \in Listed(TileOf(p), d)

(***************************************************************************)
(* C1 amended: a step that commits a cell for which candidate gathering     *)
(* found at least one candidate commits the tile-set element at an index    *)
(* that some resolved neighbour lists for the direction pointing at the     *)
(* cell; nothing is guaranteed about the other neighbours, nor when no      *)
(* candidate is gathered.                                                   *)
(***************************************************************************)
C1_CommittedTileListedBySomeNeighbour ==
    [][\A p \in Committed :
          PossibleIndices(canvas_representation, p) # << >>
            => \E d \in Direction :
                 /\ HasNeighbour(p, d)
                 /\ Neighbour(p, d) \in Resolved
                 /\ \E i \in Listed(TileOf(Neighbour(p, d)), Opposite(d)) :
                        /\ InRange(current_tile_set', i)
                        /\ canvas_representation'[p]
                               = Some(TileAt(current_tile_set', i))]_vars

\* a resolved cell holds a tile that its resolved north neighbour lists to its south
C1_Witness ==
    \E p \in Resolved :
        /\ HasNeighbour(p, North)
        /\ Neighbour(p, North) \in Resolved
        /\ TileOf(p).image_index \in Listed(TileOf(Neighbour(p, North)), South)

(***************************************************************************)
(* C2 as stated: a step given a tile set that differs from the one of the   *)
(* last build clears the resolution grid, so that after the step at most    *)
(* the one cell the same step commits is resolved.                          *)
(***************************************************************************)
C2_RebuildClearsResolution ==
    [][current_tile_set' # current_tile_set => Cardinality(ResolvedAfter) <= 1]_vars

(***************************************************************************)
(* C3: from a state with an unresolved cell, a step changes at most one     *)
(* resolution cell, and the number of resolved cells stays or grows by one. *)
(***************************************************************************)
C3_AtMostOneResolutionPerStep ==
    [][Unresolved # {}
        => /\ Cardinality(ResolvedAfter) \in
                {Cardinality(Resolved), Cardinality(Resolved) + 1}
           /\ Cardinality({p \in Pos : canvas_representation'[p]
                                        # canvas_representation[p]}) <= 1]_vars

\* several commits have happened and cells remain to be resolved
C3_Witness == Cardinality(Resolved) >= 2 /\ Unresolved # {}

(***************************************************************************)
(* C4: a resolved cell holds the same tile in every later state.            *)
(***************************************************************************)
C4_CommittedTileNeverRetracted ==
    [][\A p \in Resolved : canvas_representation'[p] = canvas_representation[p]]_vars

\* a tile committed under Scenario B is still in place after the tile set was
\* replaced by Scenario A and a further cell was committed under it
C4_Witness ==
    /\ current_tile_set = ScenarioA
    /\ \E p, q \in Resolved :
          /\ TileOf(p) = ScenarioB[2]
          /\ TileOf(q) = ScenarioA[1]

(***************************************************************************)
(* C5: once every cell is resolved, selection reports None for every seed,  *)
(* and a step with the tile set unchanged changes neither grid.             *)
(***************************************************************************)
C5_IdempotentCompletion ==
    /\ [](AllResolved =>
            \A x \in 0 .. Last, y \in 0 .. Last :
                get_lowest_entropy(canvas_connections, canvas_representation, x, y)
                    = None)
    /\ [][(AllResolved /\ loaded_tiles = current_tile_set)
            => UNCHANGED <<canvas_connections, canvas_representation>>]_vars

C5_Witness == AllResolved /\ loaded_tiles = current_tile_set /\ ~panicked

(***************************************************************************)
(* C6 as stated: with exactly one unresolved cell, selection from any       *)
(* resolved seed cell returns that unresolved cell.                         *)
(***************************************************************************)
C6_LastCellAlwaysFound ==
    \A u \in Pos : Unresolved = {u} =>
        \A s \in Resolved :
            get_lowest_entropy(canvas_connections, canvas_representation, s[1], s[2])
                = Some(u)

(***************************************************************************)
(* C6 amended: with exactly one unresolved cell, selection from a resolved  *)
(* seed cell returns the unresolved cell when its entropy is strictly lower *)
(* than the seed cell's own entropy, and reports None otherwise.            *)
(***************************************************************************)
C6_LastCellFoundIffLowerThanSeed ==
    \A u \in Pos : Unresolved = {u} =>
        \A s \in Resolved :
            get_lowest_entropy(canvas_connections, canvas_representation, s[1], s[2])
                = IF Entropy(u) < Entropy(s) THEN Some(u) ELSE None

\* one cell is left, and it is found from one resolved seed and missed from another
C6_Witness ==
    \E u \in Pos :
        /\ Unresolved = {u}
        /\ \E s \in Resolved : Entropy(u) < Entropy(s)
        /\ \E s \in Resolved : Entropy(u) >= Entropy(s)

(***************************************************************************)
(* C7: after a commit at a cell, the facet of each existing neighbour that  *)
(* faces the cell has exactly one entry.                                    *)
(***************************************************************************)
C7_NarrowedFacetHasOneEntry ==
    [][\A p \in Committed : \A d \in Direction :
          HasNeighbour(p, d)
            => Len(Facet(canvas_connections'[Neighbour(p, d)], Opposite(d))) = 1]_vars

\* a facet that the build filled with two entries has been narrowed to one
\* entry by the commit of the cell it faces
C7_Witness ==
    /\ current_tile_set = Rich
    /\ edits = 1
    /\ \E p \in Resolved :
          /\ HasNeighbour(p, South)
          /\ Neighbour(p, South) \in Unresolved
          /\ Len(FreshSlot(Rich, Neighbour(p, South)).north_connections) = 2
          /\ Len(canvas_connections[Neighbour(p, South)].north_connections) = 1

(***************************************************************************)
(* Scenario B (SpecB: the grid is built from ScenarioB and never rebuilt).  *)
(***************************************************************************)
Tile0B == ScenarioB[1]

Tile1B == ScenarioB[2]

\* the unresolved cells directly south of a cell resolved to tile 0
SouthOfTile0 ==
    {p \in Unresolved : /\ HasNeighbour(p, North)
                         /\ canvas_representation[Neighbour(p, North)] = Some(Tile0B)}

(***************************************************************************)
(* C8 as stated: with the Scenario B tile set, the first tile committed on  *)
(* the freshly built grid is tile 0, whatever the random draws.             *)
(***************************************************************************)
C8_FirstPlacementIsTile0 ==
    Cardinality(Resolved) = 1 => \A p \in Resolved : TileOf(p) = Tile0B

(***************************************************************************)
(* C8 amended: with the Scenario B tile set, the first cell committed on    *)
(* the freshly built grid lies in the top or the bottom row; the tile       *)
(* committed is tile 1 in the top row and tile 0 in the bottom row.         *)
(***************************************************************************)
C8_FirstPlacementByRow ==
    Cardinality(Resolved) = 1 =>
        \A p \in Resolved :
            \/ p[1] = 0 /\ TileOf(p) = Tile1B
            \/ p[1] = Last /\ TileOf(p) = Tile0B

\* the first placement has been made, in the bottom row
C8_Witness ==
    /\ Cardinality(Resolved) = 1
    /\ \E p \in Resolved : p[1] = Last /\ TileOf(p) = Tile0B

(***************************************************************************)
(* C9: with the Scenario B tile set, a step that commits a cell whose north *)
(* neighbour is resolved to tile 0 commits tile 1 into it.                  *)
(***************************************************************************)
C9_SouthOfTile0GetsTile1 ==
    [][\A p \in Committed :
          p \in SouthOfTile0 => canvas_representation'[p] = Some(Tile1B)]_vars

\* tile 1 sits directly south of tile 0, and the cell south of another tile 0
\* is still to be resolved
C9_Witness ==
    /\ \E p \in Resolved :
          /\ HasNeighbour(p, North)
          /\ canvas_representation[Neighbour(p, North)] = Some(Tile0B)
          /\ TileOf(p) = Tile1B
    /\ SouthOfTile0 # {}

C11_FirstStepPlacesTile0 ==
    current_tile_set = ScenarioA =>
        /\ Resolved # {}
        /\ Cardinality(Resolved) = 1 =>
              \A p \in Resolved :
                  /\ canvas_representation[p] = Some(ScenarioA[1])
                  /\ \A d \in Direction :
                        HasNeighbour(p, d) =>
                          /\ Entropy(Neighbour(p, d)) = 1
                          /\ Len(Facet(canvas_connections[Neighbour(p, d)],
                                       Opposite(d))) = 1
                          /\ Facet(canvas_connections[Neighbour(p, d)],
                                   Opposite(d))[1][1] = 0

\* the first placement went to the interior cell, which has four neighbours
C11_Witness ==
    /\ current_tile_set = ScenarioA
    /\ Resolved = {<<1, 1>>}
    /\ canvas_representation[<<1, 1>>] = Some(ScenarioA[1])
    /\ \A d \in Direction : Entropy(Neighbour(<<1, 1>>, d)) = 1

(***************************************************************************)
(* The fresh build (SpecT: every tile list of BuildSets).                   *)
(***************************************************************************)
EdgeCells == {p \in Pos : p[1] \in {0, Last} \/ p[2] \in {0, Last}}

InteriorCells == Pos \ EdgeCells

\* total_len() of the cell in the grid fill_representation_array builds
FreshEntropy(tiles, p) == total_len(fill_representation_array(tiles)[p])

\* some tile of the list has an entry for dir, in a direction p has no
\* neighbour in
OmitsEntries(tiles, p) ==
    \E d \in Direction :
        /\ ~HasNeighbour(p, d)
        /\ \E k \in 1 .. Len(tiles) : ValidTiles(tiles[k], d) # << >>

\* the cell is as the build of the current tile list left it
Untouched(p) ==
    /\ p \in Unresolved
    /\ canvas_connections[p] = FreshSlot(current_tile_set, p)

(***************************************************************************)
(* C12 as stated: on the grid freshly built from the tile list, every edge  *)
(* or corner cell has strictly smaller entropy than every interior cell.    *)
(***************************************************************************)
C12_EdgeBelowInterior ==
    \A e \in EdgeCells : \A i \in InteriorCells :
        FreshEntropy(loaded_tiles, e) < FreshEntropy(loaded_tiles, i)

(***************************************************************************)
(* C12 amended: on the grid freshly built from the tile list, every edge or *)
(* corner cell has at most the entropy of every interior cell; it is        *)
(* strictly smaller exactly when some tile has a non-empty adjacency list   *)
(* for a direction in which the cell has no neighbour.                      *)
(***************************************************************************)
C12_EdgeAtMostInterior ==
    \A e \in EdgeCells : \A i \in InteriorCells :
        /\ FreshEntropy(loaded_tiles, e) <= FreshEntropy(loaded_tiles, i)
        /\ FreshEntropy(loaded_tiles, e) < FreshEntropy(loaded_tiles, i)
              <=> OmitsEntries(loaded_tiles, e)

\* on a grid built from that tile an edge cell of the middle row still has
\* the interior cell's entropy, while a cell of the top row has less
C12_Witness ==
    /\ current_tile_set = VerticalOnly
    /\ \E e \in EdgeCells : \E i \in InteriorCells :
          Untouched(e) /\ Untouched(i) /\ Entropy(e) = Entropy(i) /\ Entropy(i) > 0
    /\ \E e \in EdgeCells : \E i \in InteriorCells :
          Untouched(e) /\ Untouched(i) /\ Entropy(e) < Entropy(i)

(***************************************************************************)
(* The tile-set synchronisation of update() (SpecE).                        *)
(***************************************************************************)
\* the step is an update(): the tile list itself is left alone
IsUpdate == loaded_tiles' = loaded_tiles

\* after the step the constraint grid is base, except for the facets that
\* face a cell the step committed
OnlyOwnPropagation(base) ==
    \A c \in Pos : \A f \in Direction :
        \/ HasNeighbour(c, f) /\ Neighbour(c, f) \in Committed
        \/ Facet(canvas_connections'[c], f) = Facet(base[c], f)

(***************************************************************************)
(* C13: an update() given a tile list equal to the one of the last build    *)
(* leaves the constraint grid as it was except for the facets its own       *)
(* propagation narrows; an update() given a different tile list (be it by   *)
(* one adjacency entry; whether or not cells are resolved, so in particular *)
(* before any is) leaves the grid freshly built from the new list, except   *)
(* for the facets its own propagation narrows.                              *)
(***************************************************************************)
C13_RebuildExactlyOnDifference ==
    [][IsUpdate =>
          /\ loaded_tiles = current_tile_set
                => OnlyOwnPropagation(canvas_connections)
          /\ loaded_tiles # current_tile_set
                => OnlyOwnPropagation(fill_representation_array(loaded_tiles))]_vars

\* the grid was built from VerticalOnly, narrowed by a step without a
\* rebuild, and then rebuilt for the list that lacks the one south entry
C13_Witness ==
    /\ current_tile_set = NorthOnly
    /\ edits = 1
    /\ Cardinality(Resolved) >= 3
    /\ \E p \in Pos :
          /\ Untouched(p)
          /\ FreshSlot(VerticalOnly, p).south_connections = <<<<0, South>>>>
          /\ canvas_connections[p].south_connections = << >>

(***************************************************************************)
(* C14 as stated: an update() given the empty tile list commits no tile,    *)
(* leaves the resolution grid and the constraint grid exactly as they were, *)
(* and does not index into the empty list.                                  *)
(***************************************************************************)
C14_EmptyTileSetIsNoOp ==
    [][(IsUpdate /\ loaded_tiles = << >>) =>
          /\ canvas_representation' = canvas_representation
          /\ canvas_connections' = canvas_connections
          /\ ~panicked']_vars

(***************************************************************************)
(* C14 amended: an update() given the empty tile list commits no tile,      *)
(* leaves the resolution grid as it was and does not index into the empty   *)
(* list; it leaves the constraint grid as it was if the last build was from *)
(* the empty list, and otherwise rebuilds it, every candidate set becoming  *)
(* empty.                                                                   *)
(***************************************************************************)
C14_EmptyTileSetCommitsNothing ==
    [][(IsUpdate /\ loaded_tiles = << >>) =>
          /\ canvas_representation' = canvas_representation
          /\ ~panicked'
          /\ canvas_connections' =
                IF current_tile_set = << >>
                THEN canvas_connections
                ELSE [pos \in Pos |-> PossibleConnectionsDefault]]_vars

\* the tile list was emptied on a grid with resolved cells and the update()
\* that followed has emptied every candidate set
C14_Witness ==
    /\ loaded_tiles = << >>
    /\ current_tile_set = << >>
    /\ edits = 2
    /\ Resolved # {}
    /\ \A p \in Pos : canvas_connections[p] = PossibleConnectionsDefault

(***************************************************************************)
(* Out-of-range entries (SpecT: the tile list is never replaced, so no      *)
(* resolved cell holds a tile of an earlier list).                          *)
(***************************************************************************)
\* some adjacency entry names a tile index >= the number of tiles
Malformed(tiles) ==
    \E k \in 1 .. Len(tiles) : \E d \in Direction :
        \E entry \in Entries(ValidTiles(tiles[k], d)) : ~InRange(tiles, entry[1])

(***************************************************************************)
(* C15 as stated: a tile list with an adjacency entry whose tile index is   *)
(* >= the number of tiles is rejected at the build, so that no step indexes *)
(* the tile list out of range: the program does not panic on it.            *)
(***************************************************************************)
C15_MalformedTileSetNeverIndexed == Malformed(loaded_tiles) => ~panicked

(***************************************************************************)
(* C16 (SpecG): the solver entity starts disabled; after every frame it is  *)
(* enabled exactly when the loaded tile list is non-empty and the "Run      *)
(* algorithm" flag is true; and no step commits a cell while the flag is    *)
(* false.                                                                   *)
(***************************************************************************)
C16_SteppingGatedByRunFlag ==
    /\ ~enabled
    /\ [][/\ (loaded_tiles' = loaded_tiles /\ run_algorithm' = run_algorithm)
               => (enabled' <=> (loaded_tiles # << >> /\ run_algorithm))
          /\ ~run_algorithm => Committed = {}]_vars

\* cells were resolved while the flag was set; it has been cleared since and
\* the entity is disabled again with cells still to resolve
C16_Witness ==
    /\ ~run_algorithm
    /\ ~enabled
    /\ loaded_tiles # << >>
    /\ Resolved # {}
    /\ Unresolved # {}

(***************************************************************************)
(* Cell selection, on the grids the next update() hands to                  *)
(* get_lowest_entropy: the grids of the state after the tile-set           *)
(* synchronisation.                                                         *)
(***************************************************************************)
SeenConnections == ConnectionsAfterSync(loaded_tiles)

SeenRepresentation == RepresentationAfterSync(loaded_tiles)

SeenEntropy(p) == total_len(SeenConnections[p])

SeenUnresolved == {p \in Pos : SeenRepresentation[p] = None}

SeenResolved == Pos \ SeenUnresolved

\* what selection returns for the seed cell
Selected(seed) ==
    get_lowest_entropy(SeenConnections, SeenRepresentation, seed[1], seed[2])

\* the unresolved cells of minimum entropy
MinCells ==
    {c \in SeenUnresolved : \A u \in SeenUnresolved : SeenEntropy(c) <= SeenEntropy(u)}

RowMajor(p) == p[1] * N + p[2]

\* the first cell of s in row-major order
FirstOf(s) == CHOOSE c \in s : \A d \in s : RowMajor(c) <= RowMajor(d)

(***************************************************************************)
(* C17: for every seed cell, a cell that selection returns is unresolved    *)
(* and its entropy is the minimum over the unresolved cells.                *)
(***************************************************************************)
C17_SelectedCellIsMinimalUnresolved ==
    \A seed \in Pos : Selected(seed) # None => Selected(seed)[1] \in MinCells

\* from a resolved seed, selection returns an unresolved cell of lower
\* entropy while unresolved cells of higher entropy exist
C17_Witness ==
    \E seed \in SeenResolved :
        /\ Selected(seed) # None
        /\ SeenEntropy(Selected(seed)[1]) < SeenEntropy(seed)
        /\ \E u \in SeenUnresolved : SeenEntropy(u) > SeenEntropy(Selected(seed)[1])

(***************************************************************************)
(* C18: selection returns no cell exactly when the seed cell is resolved    *)
(* and no unresolved cell has entropy strictly lower than the seed cell's.  *)
(***************************************************************************)
C18_NoCellIffResolvedSeedNotBeaten ==
    \A seed \in Pos :
        Selected(seed) = None
            <=> /\ seed \in SeenResolved
                /\ ~\E u \in SeenUnresolved : SeenEntropy(u) < SeenEntropy(seed)

\* with cells still unresolved, one resolved seed gives no cell and another
\* resolved seed gives one
C18_Witness ==
    /\ \E seed \in SeenResolved :
          Selected(seed) = None /\ SeenUnresolved # {}
    /\ \E seed \in SeenResolved : Selected(seed) # None

(***************************************************************************)
(* C19: while cells are unresolved and the tile list is not empty, a step   *)
(* that resolves nothing (selection returning no cell) is possible exactly  *)
(* when some resolved cell's entropy is not above that of any unresolved    *)
(* cell; the witness shows that such states are reached.                    *)
(***************************************************************************)
C19_IdleStepIffResolvedCellNotAbove ==
    (SeenUnresolved # {} /\ loaded_tiles # << >>) =>
        (None \in Selections(SeenConnections, SeenRepresentation)
            <=> \E s \in SeenResolved :
                    \A u \in SeenUnresolved : SeenEntropy(s) <= SeenEntropy(u))

\* a state with unresolved cells in which update() can resolve nothing
C19_Witness ==
    /\ ~panicked
    /\ loaded_tiles # << >>
    /\ loaded_tiles = current_tile_set
    /\ Unresolved # {}
    /\ None \in Selections(canvas_connections, canvas_representation)

(***************************************************************************)
(* C20: for every seed cell for which selection returns a cell: if the seed *)
(* is unresolved and its entropy is the minimum over the unresolved cells,  *)
(* the seed is returned; otherwise the first cell in row-major order among  *)
(* the unresolved cells of minimum entropy is returned.                     *)
(***************************************************************************)
C20_TieBreaking ==
    \A seed \in Pos :
        Selected(seed) # None =>
            Selected(seed)[1] = IF seed \in MinCells THEN seed ELSE FirstOf(MinCells)

\* an unresolved seed of minimum entropy is returned although an earlier
\* cell ties with it, and a resolved seed gives that earlier cell
C20_Witness ==
    /\ \E seed \in MinCells :
          seed # FirstOf(MinCells) /\ Selected(seed) = Some(seed)
    /\ \E seed \in SeenResolved : Selected(seed) = Some(FirstOf(MinCells))

C22_StepFrame ==
    [][(IsUpdate /\ loaded_tiles = current_tile_set) =>
          /\ Cardinality(Committed) <= 1
          /\ \A q \in Pos \ Committed :
                canvas_representation'[q] = canvas_representation[q]
          /\ \A p \in Committed : canvas_connections'[p] = canvas_connections[p]
          /\ OnlyOwnPropagation(canvas_connections)
          /\ Committed = {} =>
                /\ canvas_connections' = canvas_connections
                /\ canvas_representation' = canvas_representation]_vars

\* a second cell was committed on the grid built from Rich, and a cell next
\* to a resolved one keeps its freshly built facets except the one facing it
C22_Witness ==
    /\ current_tile_set = Rich
    /\ Cardinality(Resolved) = 2
    /\ \E p \in Resolved :
          /\ HasNeighbour(p, South)
          /\ Neighbour(p, South) \in Unresolved
          /\ Len(canvas_connections[Neighbour(p, South)].north_connections) = 1
          /\ \A f \in Direction \ {North} :
                Facet(canvas_connections[Neighbour(p, South)], f)
                    = Facet(FreshSlot(Rich, Neighbour(p, South)), f)
          /\ Len(canvas_connections[Neighbour(p, South)].east_connections) > 0

(***************************************************************************)
(* Entropy across a step.                                                   *)
(***************************************************************************)
EntropyAfter(p) == total_len(canvas_connections'[p])

\* the directions in which the cell has a neighbour that the step commits
FacingCommitted(c) ==
    {f \in Direction : HasNeighbour(c, f) /\ Neighbour(c, f) \in Committed}

(***************************************************************************)
(* C23 as stated: an update() given the tile list of the last build does    *)
(* not increase the entropy of any cell.                                    *)
(***************************************************************************)
C23_EntropyNeverIncreases ==
    [][(IsUpdate /\ loaded_tiles = current_tile_set) =>
          \A c \in Pos : EntropyAfter(c) <= Entropy(c)]_vars

(***************************************************************************)
(* C23 amended: an update() given the tile list of the last build changes   *)
(* the entropy of the neighbours of the committed cell only: the facet that *)
(* faces the committed cell is left with one entry, so the entropy falls by *)
(* that facet's former length less one, and rises by one if the facet was   *)
(* empty.                                                                   *)
(***************************************************************************)
C23_EntropyChangesByFacingFacet ==
    [][(IsUpdate /\ loaded_tiles = current_tile_set) =>
          \A c \in Pos :
              /\ Cardinality(FacingCommitted(c)) <= 1
              /\ FacingCommitted(c) = {} => EntropyAfter(c) = Entropy(c)
              /\ \A f \in FacingCommitted(c) :
                    EntropyAfter(c)
                        = Entropy(c) - Len(Facet(canvas_connections[c], f)) + 1]_vars

\* after a second commit a cell holds more entries than the build gave it
\* and another cell fewer
C23_Witness ==
    /\ current_tile_set = loaded_tiles
    /\ Cardinality(Resolved) >= 2
    /\ \E c \in Pos : Entropy(c) > total_len(FreshSlot(current_tile_set, c))
    /\ \E c \in Pos : Entropy(c) < total_len(FreshSlot(current_tile_set, c))

(***************************************************************************)
(* The build, stated from the tile list alone.                              *)
(***************************************************************************)
\* every entry some tile lists for dir
ListedBySome(tiles, dir) ==
    UNION {Entries(ValidTiles(tiles[k], dir)) : k \in 1 .. Len(tiles)}

\* where (tile, place in its list for dir) the entry is listed
Places(tiles, dir, entry) ==
    UNION {{<<k, j>> : j \in {i \in 1 .. Len(ValidTiles(tiles[k], dir)) :
                                  ValidTiles(tiles[k], dir)[i] = entry}} :
           k \in 1 .. Len(tiles)}

\* a place precedes another: an earlier tile, or earlier in the same list
Precedes(a, b) == a[1] < b[1] \/ (a[1] = b[1] /\ a[2] < b[2])

\* entry a is seen before entry b when the lists are read tile by tile
SeenBefore(tiles, dir, a, b) ==
    \E x \in Places(tiles, dir, a) :
        \A y \in Places(tiles, dir, b) : Precedes(x, y)

\* list is the duplicate-free union, in first-seen order, of all tiles'
\* adjacency lists for dir
IsFirstSeenUnion(list, tiles, dir) ==
    /\ Entries(list) = ListedBySome(tiles, dir)
    /\ \A i, j \in 1 .. Len(list) :
          i < j => /\ list[i] # list[j]
                   /\ SeenBefore(tiles, dir, list[i], list[j])

(***************************************************************************)
(* C24: after an update() that rebuilds the constraint grid, every facet    *)
(* that does not face the cell the same update() commits is empty if the    *)
(* cell lies on the grid edge facing that direction, and otherwise is the   *)
(* duplicate-free union, in first-seen order, of all tiles' adjacency lists *)
(* for the direction, whatever the grid held before.                        *)
(***************************************************************************)
C24_BuildIsFirstSeenUnion ==
    [][(IsUpdate /\ loaded_tiles # current_tile_set) =>
          \A c \in Pos : \A f \in Direction :
              \/ f \in FacingCommitted(c)
              \/ IF HasNeighbour(c, f)
                 THEN IsFirstSeenUnion(Facet(canvas_connections'[c], f),
                                       loaded_tiles, f)
                 ELSE Facet(canvas_connections'[c], f) = << >>]_vars

\* the grid was rebuilt from Rich over a grid with resolved cells: an
\* unresolved cell holds the two north entries that Rich's tiles list three
\* times, and the one east entry
C24_Witness ==
    /\ current_tile_set = Rich
    /\ edits = 2
    /\ Cardinality(Resolved) >= 2
    /\ \E c \in Unresolved :
          /\ canvas_connections[c].north_connections
                = <<<<0, South>>, <<1, South>>>>
          /\ canvas_connections[c].west_connections = <<<<1, East>>, <<0, East>>>>

(***************************************************************************)
(* The choice of the tile, on the grids the update() works on.              *)
(***************************************************************************)
\* the candidates gathered for the cell from its resolved neighbours
Candidates(p) == get_possible_tiles(SeenRepresentation, loaded_tiles, p)

GatherSafe(p) == ~GatherPanics(SeenRepresentation, loaded_tiles, p)

\* the number of directions in which the tile's adjacency list shares an
\* entry with the cell's facet
Score(tile, p) ==
    Cardinality({d \in Direction :
        Entries(ValidTiles(tile, d)) \cap Entries(Facet(SeenConnections[p], d))
            # {}})

\* place k holds the first candidate of maximal score
FirstBest(p, k) ==
    /\ \A j \in 1 .. Len(Candidates(p)) :
          Score(Candidates(p)[j], p) <= Score(Candidates(p)[k], p)
    /\ \A j \in 1 .. (k - 1) :
          Score(Candidates(p)[j], p) < Score(Candidates(p)[k], p)

(***************************************************************************)
(* C25: when an update() commits a cell for which candidates were gathered, *)
(* the confidence of each candidate is 0.25 times the number of directions  *)
(* in which its adjacency list shares an entry with the cell's facet, and   *)
(* the committed tile is the first candidate, in gathering order, of        *)
(* maximal score.                                                           *)
(***************************************************************************)
C25_FirstCandidateOfMaximalScore ==
    [][IsUpdate =>
          \A p \in Committed :
              Candidates(p) # << >> =>
                  /\ \A j \in 1 .. Len(Candidates(p)) :
                        tile_confidence(Candidates(p)[j], SeenConnections[p])
                            = Score(Candidates(p)[j], p)
                  /\ \E k \in 1 .. Len(Candidates(p)) :
                        /\ FirstBest(p, k)
                        /\ canvas_representation'[p] = Some(Candidates(p)[k])]_vars

\* a cell that selection can return has candidates of which the first does
\* not have the maximal score
C25_Witness ==
    /\ ~panicked
    /\ loaded_tiles # << >>
    /\ \E p \in SeenUnresolved :
          /\ \E seed \in Pos : Selected(seed) = Some(p)
          /\ GatherSafe(p)
          /\ Len(Candidates(p)) >= 2
          /\ \E k \in 2 .. Len(Candidates(p)) :
                FirstBest(p, k) /\ Candidates(p)[k] # Candidates(p)[1]

(***************************************************************************)
(* Candidate gathering, stated from the resolved neighbours.                *)
(***************************************************************************)
\* the neighbour of p in direction d is on the grid and resolved
ResolvedNeighbour(p, d) ==
    HasNeighbour(p, d) /\ SeenRepresentation[Neighbour(p, d)] # None

\* the adjacency list, for the direction pointing back at p, of the tile
\* that the neighbour of p in direction d holds
BackList(p, d) ==
    IF ResolvedNeighbour(p, d)
    THEN ValidTiles(SeenRepresentation[Neighbour(p, d)][1], Opposite(d))
    ELSE << >>

\* the tiles of the tile list that the entries of that list index
Contribution(p, d) ==
    [k \in 1 .. Len(BackList(p, d)) |-> loaded_tiles[BackList(p, d)[k][1] + 1]]

(***************************************************************************)
(* C26: for every cell, the candidate sequence is the concatenation of the  *)
(* contributions of its resolved on-grid neighbours in the order North,     *)
(* South, West, East, each being the tiles indexed by the neighbour's       *)
(* adjacency list for the direction pointing back at the cell, duplicates   *)
(* kept; it is empty exactly when all those lists are empty.                *)
(***************************************************************************)
C26_CandidatesInGatheringOrder ==
    \A p \in Pos :
        GatherSafe(p) =>
            /\ Candidates(p) = Contribution(p, North) \o Contribution(p, South)
                                \o Contribution(p, West) \o Contribution(p, East)
            /\ Candidates(p) = << >>
                  <=> \A d \in Direction : BackList(p, d) = << >>

\* a cell gathers the same tile twice, from neighbours on different sides,
\* and a different tile in between
C26_Witness ==
    \E p \in SeenUnresolved :
        /\ GatherSafe(p)
        /\ Len(Candidates(p)) >= 3
        /\ \E i, j, k \in 1 .. Len(Candidates(p)) :
              /\ i < j /\ j < k
              /\ Candidates(p)[i] = Candidates(p)[k]
              /\ Candidates(p)[i] # Candidates(p)[j]
        /\ Cardinality({d \in Direction : Contribution(p, d) # << >>}) >= 2

(***************************************************************************)
(* The choice without evidence.                                             *)
(***************************************************************************)
\* the entries of the four facets of the cell's candidate set
FacetEntries(p) ==
    UNION {Entries(Facet(SeenConnections[p], d)) : d \in Direction}

\* the cell has no candidate from its neighbours, and every entry of its
\* facets names a tile of the tile list
NoEvidence(p) ==
    /\ loaded_tiles # << >>
    /\ GatherSafe(p)
    /\ Candidates(p) = << >>
    /\ \A e \in FacetEntries(p) : InRange(loaded_tiles, e[1])

\* the tiles the claim allows for such a cell
AllowedWithoutEvidence(p) ==
    IF \A d \in Direction : Facet(SeenConnections[p], d) = << >>
    THEN {loaded_tiles[1]}
    ELSE {loaded_tiles[e[1] + 1] : e \in FacetEntries(p)}

(***************************************************************************)
(* C27: for a cell without gathered candidates the possible outcomes of the *)
(* tile choice are exactly: the tile at index 0 if all four facets are      *)
(* empty, and otherwise the tiles whose index some entry of a facet         *)
(* carries (a facet is then non-empty, so the re-roll finds one); and the   *)
(* tile an update() commits into such a cell is one of them.                *)
(***************************************************************************)
C27_NoEvidenceChoice ==
    /\ [](\A p \in SeenUnresolved :
            NoEvidence(p) =>
                most_likely_tile(SeenRepresentation, loaded_tiles,
                                 SeenConnections[p], p)
                    = {Some(t) : t \in AllowedWithoutEvidence(p)})
    /\ [][IsUpdate =>
            \A p \in Committed :
                NoEvidence(p) =>
                    canvas_representation'[p][1] \in AllowedWithoutEvidence(p)]_vars

\* the first placement on the grid built from Rich had no evidence and took
\* tile 1, drawn from the entries of the cell's facets
C27_Witness ==
    /\ current_tile_set = Rich
    /\ edits = 1
    /\ Cardinality(Resolved) = 1
    /\ \E p \in Resolved :
          /\ TileOf(p) = Rich[2]
          /\ canvas_connections[p] = FreshSlot(Rich, p)

(***************************************************************************)
(* Progress (SpecTF: a fixed tile list, fair seed draws).                   *)
(***************************************************************************)
\* every tile's index is its position and every entry names a listed tile
WellFormed(tiles) ==
    /\ ~Malformed(tiles)
    /\ \A k \in 1 .. Len(tiles) : tiles[k].image_index = k - 1

\* the update() commits a cell when the seed is drawn at the cell seed
SeedCommits(seed) ==
    /\ Selected(seed) # None
    /\ None \notin most_likely_tile(SeenRepresentation, loaded_tiles,
                        SeenConnections[Selected(seed)[1]], Selected(seed)[1])

(***************************************************************************)
(* C28: with a fixed, non-empty, well-formed tile list, in every reachable  *)
(* state every unresolved seed makes the update() commit a cell, and under  *)
(* fair seed draws the grid eventually has all its cells resolved.          *)
(***************************************************************************)
C28_NoPermanentStall ==
    (WellFormed(loaded_tiles) /\ loaded_tiles # << >>) =>
        /\ [](\A seed \in SeenUnresolved : SeedCommits(seed))
        /\ <>AllResolved

\* the grid has been filled under a two-tile list
C28_Witness ==
    /\ AllResolved
    /\ ~panicked
    /\ Len(current_tile_set) = 2

(***************************************************************************)
(* C29 as stated: every tile list ever supplied being well-formed, no      *)
(* update() indexes the current tile list out of range, whatever the        *)
(* interleaving of update() calls and tile-list changes, the gathering from *)
(* tiles committed under an earlier tile list included: the program does    *)
(* not panic.                                                               *)
(***************************************************************************)
C29_StaleTilesNeverIndexOutOfRange ==
    (\A tiles \in TileSets : WellFormed(tiles)) => ~panicked

(***************************************************************************)
(* Facets facing a resolved cell (SpecT: the tile list of the build that    *)
(* preceded the first commit is never replaced).                            *)
(***************************************************************************)
\* the cell p has a neighbour in direction d, and that neighbour is resolved
FacesResolved(p, d) ==
    HasNeighbour(p, d) /\ canvas_representation[Neighbour(p, d)] # None

(***************************************************************************)
(* C30: while the tile list is the one of the build that preceded the first *)
(* commit, every cell, resolved or not, that has a resolved neighbour in a  *)
(* direction d has as its facet for d exactly one entry, and that entry     *)
(* carries the image_index of the neighbour's tile.                         *)
(***************************************************************************)
C30_FacetFacingResolvedNeighbour ==
    \A p \in Pos : \A d \in Direction :
        FacesResolved(p, d) =>
            /\ Len(Facet(canvas_connections[p], d)) = 1
            /\ Facet(canvas_connections[p], d)[1][1] =
                   canvas_representation[Neighbour(p, d)][1].image_index

\* a cell holding tile 1 has a resolved neighbour and an unresolved one: a
\* resolved cell and an unresolved cell both face it
C30_Witness ==
    /\ ~panicked
    /\ \E q \in Pos : \E d, e \in Direction :
        /\ canvas_representation[q] # None
        /\ canvas_representation[q][1].image_index = 1
        /\ HasNeighbour(q, d) /\ canvas_representation[Neighbour(q, d)] # None
        /\ HasNeighbour(q, e) /\ canvas_representation[Neighbour(q, e)] = None

(***************************************************************************)
(* The authoring UI (SpecU).                                                *)
(***************************************************************************)
\* the image list and the tile list have the same length
SameLength == Len(loaded_images) = Len(loaded_tiles)

(***************************************************************************)
(* C31 as stated: after any sequence of "Load image" and "Remove image"     *)
(* operations every tile of loaded_tiles has image_index equal to its       *)
(* position in the list, and no two tiles share an image_index.             *)
(***************************************************************************)
C31_ImageIndexIsPosition ==
    /\ \A k \in 1 .. Len(loaded_tiles) : loaded_tiles[k].image_index = k - 1
    /\ \A j, k \in 1 .. Len(loaded_tiles) :
           loaded_tiles[j].image_index = loaded_tiles[k].image_index => j = k

(***************************************************************************)
(* C32 as stated (SpecV): after any sequence of update() calls and image    *)
(* loads and removals, whenever the canvas is drawn (the image list is not  *)
(* empty) the tile of every resolved cell has an image_index below the      *)
(* number of loaded images, and drawing does not index the image list out   *)
(* of range: the program does not panic.                                    *)
(***************************************************************************)
C32_RenderIndexInRange ==
    /\ loaded_images # << >> =>
           \A p \in Resolved :
               canvas_representation[p][1].image_index < Len(loaded_images)
    /\ ~panicked

(***************************************************************************)
(* C33 as stated (SpecU): after any sequence of selecting a tile, loading   *)
(* images, removing images and closing the editor, whenever                 *)
(* tile_being_modified is Some(i) where ui_draw uses it, i is below the     *)
(* number of loaded images and tiles: images[i] does not panic.             *)
(***************************************************************************)
C33_EditorSelectionInRange ==
    /\ tile_being_modified # None =>
           /\ tile_being_modified[1] < Len(loaded_images)
           /\ tile_being_modified[1] < Len(loaded_tiles)
    /\ ~panicked

\* the entry the "Add" button would push
tile_being_added == <<tile_selected, DirectionFrom(direction_selected)>>

\* no entry occurs twice in the list
DuplicateFree(list) ==
    \A a, b \in 1 .. Len(list) : list[a] = list[b] => a = b

\* the list of the tile at position k (from 1) for direction d
ListOf(tiles, k, d) == ValidTiles(tiles[k], d)

(***************************************************************************)
(* C34 (SpecU): no adjacency list of any tile ever holds the same (index,   *)
(* direction) entry twice, and a step of the editor that lengthens a list   *)
(* appends to it the selected (tile id, side) pair, which the list did not  *)
(* hold: "Add" for a pair the list holds leaves the list as it is.          *)
(***************************************************************************)
C34_AddIsIdempotent ==
    /\ [](\A k \in 1 .. Len(loaded_tiles) : \A d \in Direction :
              DuplicateFree(ListOf(loaded_tiles, k, d)))
    /\ [][loaded_images' = loaded_images =>
              \A k \in 1 .. Len(loaded_tiles) : \A d \in Direction :
                  Len(ListOf(loaded_tiles', k, d)) > Len(ListOf(loaded_tiles, k, d))
                      => /\ ~Contains(ListOf(loaded_tiles, k, d), tile_being_added)
                         /\ ListOf(loaded_tiles', k, d) =
                                Append(ListOf(loaded_tiles, k, d), tile_being_added)]_vars

\* the editor is open on a tile one of whose lists holds the selected pair
\* next to another entry, and "Add" can be pressed
C34_Witness ==
    /\ ~panicked
    /\ tile_being_modified # None
    /\ \E d \in Direction :
           /\ Contains(ListOf(loaded_tiles, tile_being_modified[1] + 1, d),
                       tile_being_added)
           /\ Len(ListOf(loaded_tiles, tile_being_modified[1] + 1, d)) = 2

====
